---- MODULE Spec2Model ----
(***************************************************************************)
(* State-machine model of the simulation core of the Virtual Society of    *)
(* Philosophers: PhilosopherModel (src/src/simulation/philosopher_model.py)*)
(* PhilosopherAgent (src/src/models/agent.py), the Essay / Critique /      *)
(* School records and SchoolDetector (src/src/simulation/school_detector). *)
(*                                                                         *)
(* Reals are fixed-point integers.  Influence, persuasiveness and weights  *)
(* are in thousandths (influence 1.0 is 1000, the floor 0.1 is 100);       *)
(* belief components are in hundredths (5.0 is 500).                       *)
(*                                                                         *)
(* Agent ids are the integers Mesa assigns; the code converts them with    *)
(* str() and int() at several places, so an id value carries its Python    *)
(* type: <<"int", n>> or <<"str", n>>.  Two ids of different type are      *)
(* different values, as 1 and "1" are in Python.                           *)
(***************************************************************************)
EXTENDS Integers, Sequences, FiniteSets, TLC

\* ------------------------------------------------------------------ bounds
MaxSteps == 1          \* step() calls per run
MaxEssays == 3         \* size of the essay registry at which agents stop writing
MaxCritiques == 1      \* size of the critique registry at which agents stop critiquing
MaxCitations == 2      \* cap on the Poisson(2) draw of select_citations
MaxPool == 4           \* agents handed to a _find_cohesive_groups call on its own
BeliefDim == 2         \* belief_vector_dim of the modelled runs

\* --------------------------------------------------------- program constants
INITIAL_INFLUENCE == 1000
INFLUENCE_FLOOR == 100
CRITIC_GAIN == 50
BASE_DECAY == -10
CITATION_BONUS == 20
CRITIQUE_BONUS == 10
RECENT_WINDOW == 6
TARGET_FACTOR == 100
BELIEF_FACTOR == 100
PERSUASION_THRESHOLD == 600
DEATH_THRESHOLD == 500
INACTIVE_TICKS == 12
BIRTH_THRESHOLD == 2000
CHILD_FACTOR == 500
BELIEF_MAX == 500
SCHOOL_PERIOD == 6
BIRTH_DEATH_PERIOD == 12
MIN_AGENTS_FOR_SCHOOLS == 3
MIN_SCHOOL_SIZE == 3
min_samples == 3
eps == 50
cohesion_threshold == 700
MUTATION_STRENGTH == 30
DEFAULT_AUTHOR_INFLUENCE == 1000
BROADCAST_PERIOD == 6
DEFAULT_PERSUASIVENESS == 0
\* the fixed-point value of 1.0
Scale == INITIAL_INFLUENCE

\* ------------------------------------------------------------ id conversions
IntId(n) == <<"int", n>>
StrId(n) == <<"str", n>>
NoId == <<"none", 0>>
\* Python str(x) and int(x) on an id value
str(x) == <<"str", x[2]>>
int(x) == <<"int", x[2]>>

None == -1

\* ------------------------------------------------------------ small helpers
Max(a, b) == IF a >= b THEN a ELSE b
Min(a, b) == IF a <= b THEN a ELSE b
Range(s) == {s[i] : i \in DOMAIN s}

\* x * y of two fixed-point numbers
FMul(x, y) == (x * y) \div Scale

RECURSIVE SumOver(_, _)
SumOver(S, f) ==
  IF S = {} THEN 0
  ELSE LET x == CHOOSE y \in S : TRUE IN f[x] + SumOver(S \ {x}, f)

\* all sequences of distinct elements of S with length n
RECURSIVE DistinctSeqs(_, _)
DistinctSeqs(S, n) ==
  IF n = 0 THEN {<<>>}
  ELSE UNION {{Append(s, x) : x \in S \ Range(s)} : s \in DistinctSeqs(S, n - 1)}

\* --------------------------------------------------------- PhilosopherAgent
\* variant without the floor
update_influence_unclamped(influence, delta) == influence + delta

update_influence(influence, delta) == Max(INFLUENCE_FLOOR, influence + delta)

\* variant that leaves the value as it is
clip_unbounded(x) == x

clip(x) == Max(0 - BELIEF_MAX, Min(BELIEF_MAX, x))

update_belief_vector(belief_vector, influence_vector, weight) ==
  [i \in DOMAIN belief_vector |->
     clip(belief_vector[i] + FMul(weight, influence_vector[i]))]

\* variant that stamps every activation
record_activity_always(agent, produced, current_tick) ==
  [agent EXCEPT !.last_activity_tick = current_tick]

\* self.last_activity_tick = current_tick of step(), under `if essay:` and
\* `if critique:`
record_activity(agent, produced, current_tick) ==
  IF produced THEN [agent EXCEPT !.last_activity_tick = current_tick] ELSE agent

\* variant that looks at the influence only
is_eligible_for_death_by_influence(agent, current_tick) ==
  agent.influence < DEATH_THRESHOLD

\* variant with an inclusive inactivity bound
is_eligible_for_death_inclusive(agent, current_tick) ==
  /\ agent.influence < DEATH_THRESHOLD
  /\ current_tick - agent.last_activity_tick >= INACTIVE_TICKS

is_eligible_for_death(agent, current_tick) ==
  /\ agent.influence < DEATH_THRESHOLD
  /\ current_tick - agent.last_activity_tick > INACTIVE_TICKS

NewAgent(n, persona, belief, tick) ==
  [unique_id |-> IntId(n), persona |-> persona, belief_vector |-> belief,
   influence |-> INITIAL_INFLUENCE, school_id |-> None,
   birth_tick |-> tick, last_activity_tick |-> tick]

\* ---------------------------------------------------------------- registries
\* Essay(...) as write_essay constructs it; the id of an essay is its position
\* in the registry (ids are fresh uuids and the registry keeps insertion order)
Essay(author_id, timestamp, citations) ==
  [author_id |-> author_id, timestamp |-> timestamp, citations |-> citations,
   citation_count |-> 0, author_influence |-> DEFAULT_AUTHOR_INFLUENCE]

\* Critique(...) as write_critique constructs it; score_writes counts the
\* calls of update_persuasiveness on the critique
Critique(critic_id, target_id, stance, timestamp) ==
  [critic_id |-> critic_id, target_id |-> target_id, stance |-> stance,
   timestamp |-> timestamp, persuasiveness_score |-> DEFAULT_PERSUASIVENESS,
   score_writes |-> 0]

update_persuasiveness(critique, score) ==
  [critique EXCEPT !.persuasiveness_score = score, !.score_writes = @ + 1]

\* the critique write_critique returns: with the LLM collaborators its
\* persuasiveness is evaluated and stored before it is registered
write_critique(critic_id, target_id, stance, timestamp, llm, score) ==
  IF llm
    THEN update_persuasiveness(Critique(critic_id, target_id, stance, timestamp),
                               score)
    ELSE Critique(critic_id, target_id, stance, timestamp)

add_citation(essay) == [essay EXCEPT !.citation_count = @ + 1]

\* the loop over essay.citations of add_essay, from entry i on
RECURSIVE CiteLoop(_, _, _)
CiteLoop(reg, cites, i) ==
  IF i > Len(cites) THEN reg
  ELSE LET cited_id == cites[i]
       IN CiteLoop(IF cited_id \in DOMAIN reg
                     THEN [reg EXCEPT ![cited_id] = add_citation(@)]
                     ELSE reg,
                   cites, i + 1)

add_essay(reg, essay, db) ==
  LET registered == Append(reg, essay)
  IN IF db THEN CiteLoop(registered, essay.citations, 1) ELSE registered

\* variant with the author test inverted
get_available_essays_own(reg, exclude_author) ==
  {i \in DOMAIN reg : exclude_author = NoId \/ reg[i].author_id = exclude_author}

get_available_essays(reg, exclude_author) ==
  {i \in DOMAIN reg : exclude_author = NoId \/ reg[i].author_id # exclude_author}

\* the list of the elements of a set of essay ids, in registry order
RECURSIVE Listed(_)
Listed(S) ==
  IF S = {} THEN <<>>
  ELSE LET m == CHOOSE x \in S : \A y \in S : x <= y
       IN <<m>> \o Listed(S \ {m})

\* variant that samples with replacement
select_citations_replace(reg, unique_id) ==
  LET available_essays == get_available_essays(reg, unique_id)
  IN IF available_essays = {} THEN {<<>>}
     ELSE UNION {[1..n -> available_essays] : n \in 0..MaxCitations}

\* select_citations: the possible lists.  np.random.choice(..., replace=False)
\* returns num_citations distinct essays; the order of the sample is never
\* read (add_essay and _build_citation_network treat every entry alike), so
\* a sample is listed in registry order.
select_citations(reg, unique_id) ==
  LET available_essays == get_available_essays(reg, unique_id)
  IN IF available_essays = {} THEN {<<>>}
     ELSE {Listed(S) : S \in {T \in SUBSET available_essays :
                                Cardinality(T) <= MaxCitations}}

\* variant that offers every registered essay
select_essay_to_critique_any(reg, unique_id) == DOMAIN reg

\* select_essay_to_critique: the essays the draw can return; none stands
\* for the return value None.  Every candidate has a positive weight.
select_essay_to_critique(reg, unique_id) == get_available_essays(reg, unique_id)

\* the agents of the schedule whose unique_id equals id
select_agent(ags, act, id) == {a \in act : ags[a].unique_id = id}

\* variant with an inclusive persuasion threshold
persuades_inclusive(persuasiveness, stance) ==
  persuasiveness >= PERSUASION_THRESHOLD /\ stance > 0

\* if persuasiveness > 0.6 and critique.stance > 0
persuades(persuasiveness, stance) ==
  persuasiveness > PERSUASION_THRESHOLD /\ stance > 0

\* variant whose critic gain is scaled by the persuasiveness
process_critique_effects_scaled(ags, act, reg, crits, cid, persuasiveness) ==
  LET critique == crits[cid]
      skipped == [agents |-> ags, critiques |-> crits]
  IN IF critique.target_id \notin DOMAIN reg THEN skipped
     ELSE
       LET target_essay == reg[critique.target_id]
           critic_candidates == select_agent(ags, act, int(critique.critic_id))
           target_author_candidates ==
             select_agent(ags, act, int(target_essay.author_id))
       IN IF critic_candidates = {} \/ target_author_candidates = {} THEN skipped
          ELSE
            LET critic == CHOOSE a \in critic_candidates : TRUE
                target_author == CHOOSE a \in target_author_candidates : TRUE
                ags1 == [ags EXCEPT ![critic].influence =
                           update_influence(@, FMul(persuasiveness, CRITIC_GAIN))]
                ags2 == [ags1 EXCEPT ![target_author].influence =
                           update_influence(@, FMul(persuasiveness, TARGET_FACTOR)
                                                 * critique.stance)]
            IN [agents |-> ags2,
                critiques |-> [crits EXCEPT ![cid] =
                                 update_persuasiveness(@, persuasiveness)]]

\* variant that rewards the critic before it looks for the target author
process_critique_effects_eager(ags, act, reg, crits, cid, persuasiveness) ==
  LET critique == crits[cid]
      critic_candidates == select_agent(ags, act, int(critique.critic_id))
      ags1 == IF critic_candidates = {} THEN ags
              ELSE [ags EXCEPT ![CHOOSE a \in critic_candidates : TRUE].influence =
                      update_influence(@, CRITIC_GAIN)]
      target_author_candidates ==
        IF critique.target_id \notin DOMAIN reg THEN {}
        ELSE select_agent(ags, act, int(reg[critique.target_id].author_id))
  IN IF target_author_candidates = {}
       THEN [agents |-> ags1, critiques |-> crits]
       ELSE LET target_author == CHOOSE a \in target_author_candidates : TRUE
            IN [agents |-> [ags1 EXCEPT ![target_author].influence =
                              update_influence(@, FMul(persuasiveness, TARGET_FACTOR)
                                                    * critique.stance)],
                critiques |-> [crits EXCEPT ![cid] =
                                 update_persuasiveness(@, persuasiveness)]]

\* _process_critique_effects for the critique at position cid, with the
\* Beta(2,2) draw given as persuasiveness
process_critique_effects(ags, act, reg, crits, cid, persuasiveness) ==
  LET critique == crits[cid]
      skipped == [agents |-> ags, critiques |-> crits]
  IN IF critique.target_id \notin DOMAIN reg THEN skipped
     ELSE
       LET target_essay == reg[critique.target_id]
           critic_candidates == select_agent(ags, act, int(critique.critic_id))
           target_author_candidates ==
             select_agent(ags, act, int(target_essay.author_id))
       IN IF critic_candidates = {} \/ target_author_candidates = {} THEN skipped
          ELSE
            LET critic == CHOOSE a \in critic_candidates : TRUE
                target_author == CHOOSE a \in target_author_candidates : TRUE
                influence_change ==
                  FMul(persuasiveness, TARGET_FACTOR) * critique.stance
                ags1 == [ags EXCEPT ![critic].influence =
                           update_influence(@, CRITIC_GAIN)]
                ags2 == [ags1 EXCEPT ![target_author].influence =
                           update_influence(@, influence_change)]
                ags3 ==
                  IF persuades(persuasiveness, critique.stance)
                    THEN [ags2 EXCEPT ![target_author].belief_vector =
                            update_belief_vector(@, ags2[critic].belief_vector,
                                                 FMul(BELIEF_FACTOR, persuasiveness))]
                    ELSE ags2
            IN [agents |-> ags3,
                critiques |-> [crits EXCEPT ![cid] =
                                 update_persuasiveness(@, persuasiveness)]]

add_critique(ags, act, reg, crits, critique, persuasiveness) ==
  process_critique_effects(ags, act, reg, Append(crits, critique),
                           Len(crits) + 1, persuasiveness)

\* total_change of _update_influence_scores for one agent
total_change(agent, reg, crits, now) ==
  LET recent_essays == {i \in DOMAIN reg :
                          /\ reg[i].author_id = str(agent.unique_id)
                          /\ now - reg[i].timestamp <= RECENT_WINDOW}
      citation_bonus ==
        SumOver(recent_essays,
                [i \in recent_essays |-> reg[i].citation_count * CITATION_BONUS])
      recent_critiques == {i \in DOMAIN crits :
                             /\ crits[i].critic_id = str(agent.unique_id)
                             /\ now - crits[i].timestamp <= RECENT_WINDOW}
      critique_bonus ==
        SumOver(recent_critiques,
                [i \in recent_critiques |->
                   FMul(crits[i].persuasiveness_score, CRITIQUE_BONUS)])
  IN BASE_DECAY + citation_bonus + critique_bonus

update_influence_scores(ags, act, reg, crits, now) ==
  [a \in DOMAIN ags |->
     IF a \in act
       THEN [ags[a] EXCEPT !.influence =
               update_influence(@, total_change(ags[a], reg, crits, now))]
       ELSE ags[a]]

\* ------------------------------------------------------------ SchoolDetector
\* belief_vectors is a function from the keys str(unique_id) to vectors.
RECURSIVE SumSeq(_, _)
SumSeq(f, n) == IF n = 0 THEN 0 ELSE f[n] + SumSeq(f, n - 1)

Dot(v1, v2) == SumSeq([i \in DOMAIN v1 |-> v1[i] * v2[i]], Len(v1))

\* the element of a one-element set
TheOne(S) == CHOOSE x \in S : TRUE

\* floor of the square root of n, searched in lo..hi; the midpoint and the
\* argument are bound once, as values
RECURSIVE SqrtIn(_, _, _)
SqrtIn(n, lo, hi) ==
  IF lo >= hi THEN lo
  ELSE TheOne({IF mid * mid <= n THEN SqrtIn(n, mid, hi) ELSE SqrtIn(n, lo, mid - 1) :
                 mid \in {(lo + hi + 1) \div 2}})

ISqrt(n) == TheOne({SqrtIn(m, 0, BELIEF_MAX * BeliefDim) : m \in {n}})

\* _cosine_similarity, in thousandths
cosine_similarity(vec1, vec2) ==
  LET norm1 == ISqrt(Dot(vec1, vec1))
      norm2 == ISqrt(Dot(vec2, vec2))
  IN IF norm1 = 0 \/ norm2 = 0 THEN 0
     ELSE (Scale * Dot(vec1, vec2)) \div (norm1 * norm2)

\* all partitions of a finite set
RECURSIVE Partitions(_)
Partitions(S) ==
  IF S = {} THEN {{}}
  ELSE LET x == CHOOSE y \in S : TRUE
       IN UNION {{P \cup {{x}}} \cup {(P \ {b}) \cup {b \cup {x}} : b \in P} :
                   P \in Partitions(S \ {x})}

\* all orderings of a finite set, as sequences
Orderings(S) == DistinctSeqs(S, Cardinality(S))

\* _build_citation_network: one (citing author, cited author) pair per
\* citation entry whose target is in the registry
build_citation_network(reg) ==
  {<<i, j>> \in (DOMAIN reg) \X (1..MaxCitations) :
     j <= Len(reg[i].citations) /\ reg[i].citations[j] \in DOMAIN reg}

NetworkNodes(reg) ==
  UNION {{reg[e[1]].author_id, reg[reg[e[1]].citations[e[2]]].author_id} :
           e \in build_citation_network(reg)}

\* _detect_citation_clusters: the possible results, each an ordered mapping
\* (sequence) of member sets.  The Louvain partition of the graph is a library
\* result: any partition of the nodes.
detect_citation_clusters(reg) ==
  LET nodes == NetworkNodes(reg)
  IN IF build_citation_network(reg) = {} THEN {<<>>}
     ELSE IF Cardinality(nodes) < 3 THEN {<<>>}
     ELSE UNION {Orderings({b \in partition : Cardinality(b) >= min_samples}) :
                   partition \in Partitions(nodes)}

Dist2(v1, v2) == SumSeq([i \in DOMAIN v1 |-> (v1[i] - v2[i]) * (v1[i] - v2[i])], Len(v1))

EpsNeighbours(belief_vectors, a) ==
  {b \in DOMAIN belief_vectors :
     Dist2(belief_vectors[a], belief_vectors[b]) <= eps * eps}

CorePoints(belief_vectors) ==
  {a \in DOMAIN belief_vectors :
     Cardinality(EpsNeighbours(belief_vectors, a)) >= min_samples}

\* the core points density-reachable from the set S of core points
RECURSIVE CoreClosure(_, _)
CoreClosure(belief_vectors, S) ==
  LET next == S \cup {b \in CorePoints(belief_vectors) :
                        \E a \in S : b \in EpsNeighbours(belief_vectors, a)}
  IN IF next = S THEN S ELSE CoreClosure(belief_vectors, next)

CoreComponents(belief_vectors) ==
  {CoreClosure(belief_vectors, {a}) : a \in CorePoints(belief_vectors)}

\* DBSCAN(eps, min_samples).fit_predict: the clusters are the components of
\* core points, each border point joins one component it is adjacent to
\* (which one depends on the order of the points), noise is left out.
DBSCAN(belief_vectors) ==
  LET comps == CoreComponents(belief_vectors)
      cores == CorePoints(belief_vectors)
      adjacent(a) == {c \in comps : EpsNeighbours(belief_vectors, a) \cap c # {}}
      border == {a \in DOMAIN belief_vectors \ cores : adjacent(a) # {}}
      assignments == {f \in [border -> comps] : \A a \in border : f[a] \in adjacent(a)}
  IN {{c \cup {a \in border : f[a] = c} : c \in comps} : f \in assignments}

\* _detect_belief_clusters: the possible results, same shape as above
detect_belief_clusters(belief_vectors) ==
  IF Cardinality(DOMAIN belief_vectors) < min_samples THEN {<<>>}
  ELSE UNION {Orderings(clusters) : clusters \in DBSCAN(belief_vectors)}

\* the candidate loop of one seed attempt of _find_cohesive_groups: todo is
\* the part of list(remaining) not yet visited, in any order
RECURSIVE GrowGroup(_, _, _, _)
GrowGroup(group, todo, belief_vectors, threshold) ==
  IF todo = {} THEN {group}
  ELSE UNION {
    LET sims == [m \in group |->
                   cosine_similarity(belief_vectors[candidate], belief_vectors[m])]
        \* np.mean(...) > threshold
        admitted == SumOver(group, sims) > threshold * Cardinality(group)
    IN UNION {GrowGroup(grown, rest, belief_vectors, threshold) :
                grown \in {IF admitted THEN group \cup {candidate} ELSE group},
                rest \in {todo \ {candidate}}}
    : candidate \in todo}

\* _find_cohesive_groups: the possible lists of groups from the pool remaining
RECURSIVE CohesiveFrom(_, _, _)
CohesiveFrom(remaining, belief_vectors, threshold) ==
  IF Cardinality(remaining) < min_samples THEN {<<>>}
  ELSE UNION {
    UNION {
      LET rest == IF Cardinality(group) >= min_samples
                    THEN remaining \ group
                    ELSE remaining \ {seed}
      IN {IF Cardinality(group) >= min_samples THEN <<group>> \o tail ELSE tail :
            tail \in CohesiveFrom(rest, belief_vectors, threshold)}
      : group \in GrowGroup({seed}, remaining \ {seed}, belief_vectors, threshold)}
    : seed \in remaining}

find_cohesive_groups(agents_list, belief_vectors, threshold) ==
  IF Cardinality(agents_list) < min_samples THEN {<<>>}
  ELSE CohesiveFrom(agents_list, belief_vectors, threshold)

\* the loop over all_clusters of _merge_clusters, from cluster i on; the
\* result is [merged, used_agents]
RECURSIVE MergeLoop(_, _, _, _)
MergeLoop(all_clusters, i, merged, used_agents) ==
  IF i > Len(all_clusters) THEN [merged |-> merged, used_agents |-> used_agents]
  ELSE LET available_members == all_clusters[i] \ used_agents
       IN IF Cardinality(available_members) >= min_samples
            THEN MergeLoop(all_clusters, i + 1, Append(merged, available_members),
                           used_agents \cup available_members)
            ELSE MergeLoop(all_clusters, i + 1, merged, used_agents)

\* _merge_clusters: the possible results; entry k + 1 of a result is the
\* member list of "school_k"
merge_clusters(graph_clusters, belief_clusters, belief_vectors) ==
  LET all_clusters == graph_clusters \o belief_clusters
  IN IF all_clusters = <<>> THEN {<<>>}
     ELSE
       LET looped == MergeLoop(all_clusters, 1, <<>>, {})
           remaining_agents == (DOMAIN belief_vectors) \ looped.used_agents
       IN IF Cardinality(remaining_agents) >= min_samples
            THEN {looped.merged \o SelectSeq(groups,
                                      LAMBDA g : Cardinality(g) >= min_samples) :
                    groups \in find_cohesive_groups(remaining_agents, belief_vectors,
                                                    cohesion_threshold)}
            ELSE {looped.merged}

\* detect_schools: the possible results
detect_schools(reg, belief_vectors) ==
  IF Cardinality(DOMAIN belief_vectors) < min_samples THEN {<<>>}
  ELSE UNION {merge_clusters(graph_clusters, belief_clusters, belief_vectors) :
                graph_clusters \in detect_citation_clusters(reg),
                belief_clusters \in detect_belief_clusters(belief_vectors)}

\* ---------------------------------------------------------- PhilosopherModel
\* belief_vectors argument of detect_schools:
\* {str(agent.unique_id): agent.belief_vector for agent in self.schedule.agents}
belief_map(ags, act) ==
  [k \in {str(ags[a].unique_id) : a \in act} |->
     ags[CHOOSE a \in act : str(ags[a].unique_id) = k].belief_vector]

School(member_ids, founding_tick) ==
  [member_ids |-> member_ids, founding_tick |-> founding_tick]

\* the member loop of _detect_and_update_schools for one school
assign_members(ags, act, member_ids, school_id) ==
  [a \in DOMAIN ags |->
     IF a \in act /\ \E mid \in member_ids : ags[a].unique_id = int(mid)
       THEN [ags[a] EXCEPT !.school_id = school_id]
       ELSE ags[a]]

\* the loop over school_clusters.items() of _detect_and_update_schools, from
\* cluster i on; "school_" + "school_k" is the school id, written k here
RECURSIVE SchoolLoop(_, _, _, _, _, _, _)
SchoolLoop(school_clusters, i, sch, ags, act, new_schools, now) ==
  IF i > Len(school_clusters)
    THEN [schools |-> sch, agents |-> ags, new_schools |-> new_schools]
  ELSE
    LET member_ids == school_clusters[i]
        school_id == i - 1
    IN IF Cardinality(member_ids) >= MIN_SCHOOL_SIZE
         THEN SchoolLoop(school_clusters, i + 1,
                IF school_id \notin DOMAIN sch
                  THEN [k \in DOMAIN sch \cup {school_id} |->
                          IF k = school_id THEN School(member_ids, now) ELSE sch[k]]
                  ELSE sch,
                assign_members(ags, act, member_ids, school_id),
                act, new_schools \cup {school_id}, now)
         ELSE SchoolLoop(school_clusters, i + 1, sch, ags, act, new_schools, now)

\* _detect_and_update_schools once detect_schools has returned school_clusters
update_schools(school_clusters, sch, ags, act, now) ==
  LET existing_schools == DOMAIN sch
      looped == SchoolLoop(school_clusters, 1, sch, ags, act, {}, now)
      defunct_schools == existing_schools \ looped.new_schools
  IN [schools |-> [k \in DOMAIN looped.schools \ defunct_schools |-> looped.schools[k]],
      agents |-> looped.agents]

agents_to_remove(ags, act, now) ==
  {a \in act : is_eligible_for_death(ags[a], now)}

high_influence_agents(ags, act) ==
  {a \in act : ags[a].influence > BIRTH_THRESHOLD}

\* variant with a cap of twice the initial population
below_cap_double(population, n) == population < 2 * n

\* variant with an inclusive cap
below_cap_inclusive(population, n) == 2 * population <= 3 * n

\* len(self.schedule.agents) < self.n_agents * 1.5
below_cap(population, n) == 2 * population < 3 * n

birth_condition(ags, act, n) ==
  high_influence_agents(ags, act) # {} /\ below_cap(Cardinality(act), n)

\* variant whose child starts with its parent's ticks
spawn_child_aged(ags, parent, noise, now) ==
  LET p == ags[parent]
      child == NewAgent(Len(ags) + 1, Append(p.persona, "_descendant"),
                        p.belief_vector, p.last_activity_tick)
  IN [child EXCEPT
        !.belief_vector = [i \in DOMAIN p.belief_vector |->
                             clip(p.belief_vector[i] + noise[i])],
        !.influence = FMul(p.influence, CHILD_FACTOR)]

spawn_child(ags, parent, noise, now) ==
  LET p == ags[parent]
      child == NewAgent(Len(ags) + 1, Append(p.persona, "_descendant"),
                        p.belief_vector, now)
  IN [child EXCEPT
        !.belief_vector = [i \in DOMAIN p.belief_vector |->
                             clip(p.belief_vector[i] + noise[i])],
        !.influence = FMul(p.influence, CHILD_FACTOR)]

\* ---------------------------------------------------------------- the state
VARIABLES
  time,        \* self.schedule.time
  agents,      \* every PhilosopherAgent ever created, by Mesa id 1, 2, ...
  active,      \* the ids of self.schedule.agents
  essays,      \* self.essays, in insertion order
  critiques,   \* self.critiques, in insertion order
  schools,     \* self.schools, keyed by k for the id "school_school_k"
  db_manager,  \* whether a persistence collaborator was given
  use_llm,     \* whether the LLM collaborators were built
  n_agents,    \* self.n_agents
  pc,          \* position of the running step(): "idle" between two steps
  pending,     \* agents RandomActivation has not yet activated in this tick
  steps,       \* step() calls completed in this run
  observed,    \* the last evaluation of get_model_state: by whom, in which phase
  grouping     \* the running _find_cohesive_groups call: its arguments and locals

vars == <<time, agents, active, essays, critiques, schools, db_manager,
          use_llm, n_agents, pc, pending, steps, observed, grouping>>

\* ------------------------------------------------------------ drawn values
\* np.random.beta(2, 2) of _process_critique_effects
PersuasivenessValues == {600, 800}
\* evaluate_critique_persuasiveness of the LLM wrapper (fallback "0.65")
LLMScores == {650}
Stances == {1, -1}
\* np.random.normal(0, mutation_strength, belief_vector_dim)
NoiseVectors ==
  {[i \in 1..BeliefDim |-> IF i = 1 THEN MUTATION_STRENGTH ELSE 0 - MUTATION_STRENGTH],
   [i \in 1..BeliefDim |-> IF i = 1 THEN 0 - MUTATION_STRENGTH ELSE MUTATION_STRENGTH]}

Personas == <<"Kantian", "Humean", "Aristotelian", "Nietzschean", "Cartesian",
              "Utilitarian", "Existentialist", "Stoic", "Empiricist", "Rationalist",
              "Pragmatist", "Phenomenologist", "Analytic", "Continental", "Buddhist",
              "Confucian", "Platonic", "Hegelian", "Spinozan", "Lockean">>

\* persona of the i-th initial agent (i from 0), _create_initial_agents
initial_persona(i) == <<Personas[(i % Len(Personas)) + 1]>>

\* a belief vector with first component x and the others y
Vec(x, y) == [i \in 1..BeliefDim |-> IF i = 1 THEN x ELSE y]

\* --------------------------------------------------------------- start states
\* A run is observed either from the state after construction (tick 0) or
\* from a state between two steps in its third year (tick 35): agent 1 was
\* removed at the birth/death event of tick 24 and agent 4 was born at it,
\* essay 1 is by agent 1 and essay 2, by agent 2, cites it.  The later state
\* is described by a profile: the influence of agents 2, 3, 4 and the ticks
\* since essay 2 (agents 3 and 4 have produced nothing, their last activity
\* is their birth), the belief vectors, and whether a school found by an
\* earlier detection cycle (members 1, 2, 3) is registered.  A third kind of
\* start state lies after the birth/death event of tick 36, which removed
\* agent 2 as well: two agents are active and the school is still registered.
\* In one more mid-run state of a run with three initial agents a first
\* child (agent 4) was born at tick 12 and a second (agent 5) at tick 24, so
\* four agents are active.  A fourth one is the end of the first year (tick 11): agent 1 wrote an
\* essay at tick 0 and agent 2 critiqued it at ticks 1 to 5, each time with
\* stance -1 and a draw of 0.8, so agent 1 stands at
\* 1.0 - 5 * 0.08 - 11 * 0.01 = 0.49 when the first birth/death event comes.
MidAgent(i, persona, belief, influence, birth, last, school) ==
  [NewAgent(i, persona, belief, birth) EXCEPT
     !.influence = influence, !.last_activity_tick = last, !.school_id = school]

BeliefClustered == <<Vec(90, 10), Vec(100, 0), Vec(110, 0), Vec(120, 10), Vec(130, 10)>>
BeliefCohesive == <<Vec(90, 10), Vec(100, 0), Vec(300, 100), Vec(480, 0), Vec(-300, 200)>>

FRESH_TICK == 0 * BIRTH_DEATH_PERIOD
MIDRUN_TICK == 3 * BIRTH_DEATH_PERIOD - 1
FIRST_DEATH_TICK == 2 * BIRTH_DEATH_PERIOD
OLD_SCHOOL_TICK == 3 * SCHOOL_PERIOD
OLD_ESSAY_TICK == BIRTH_DEATH_PERIOD - 1
DEAD_INFLUENCE == DEATH_THRESHOLD - INFLUENCE_FLOOR
LATE_TICKS == {MIDRUN_TICK + 1, MIDRUN_TICK + SCHOOL_PERIOD}
FIRST_YEAR_TICK == BIRTH_DEATH_PERIOD - 1
FIRST_YEAR_CRITIQUES == 5

\* influence of agents 2, 3, 4 and ticks since the essay of agent 2
PopulationProfiles ==
  {[infl |-> <<410, 610, 410>>, gap |-> 12],
   [infl |-> <<106, 1000, 2100>>, gap |-> 12],
   [infl |-> <<106, 1000, 2100>>, gap |-> 1]}

FreshScenarios ==
  {[t0 |-> FRESH_TICK, n |-> 3, beliefs |-> BeliefClustered,
    school |-> FALSE, db |-> db, llm |-> llm,
    prof |-> [infl |-> <<>>, gap |-> 0]] :
     db \in BOOLEAN, llm \in BOOLEAN}

\* influence of agents 2, 3, 4, 5 when two children were born
CrowdedProfile == [infl |-> <<106, 1000, 2100, 1000>>, gap |-> 1]

MidRunScenarios ==
  {[t0 |-> MIDRUN_TICK, n |-> n, beliefs |-> b, school |-> sc, db |-> db,
    llm |-> llm, prof |-> prof] :
     n \in {2, 3}, prof \in PopulationProfiles,
     b \in {BeliefClustered, BeliefCohesive}, sc \in BOOLEAN,
     db \in {FALSE}, llm \in BOOLEAN}
  \cup {[t0 |-> MIDRUN_TICK, n |-> 3, beliefs |-> BeliefCohesive, school |-> FALSE,
          db |-> FALSE, llm |-> FALSE, prof |-> CrowdedProfile]}

\* agent 2 (influence 0.4, silent since tick t0 - 18) was removed at tick 36
LateProfile == [infl |-> <<400, 990, 1500>>, gap |-> 18]

LateScenarios ==
  {[t0 |-> t, n |-> 3, beliefs |-> BeliefClustered, school |-> TRUE,
    db |-> FALSE, llm |-> llm, prof |-> LateProfile] :
     t \in LATE_TICKS, llm \in BOOLEAN}

\* influence of agents 1, 2, 3 at tick 11; gap is not read
FirstYearProfile == [infl |-> <<490, 1140, 890>>, gap |-> 0]

FirstYearScenarios ==
  {[t0 |-> FIRST_YEAR_TICK, n |-> 3, beliefs |-> BeliefClustered, school |-> FALSE,
    db |-> FALSE, llm |-> FALSE, prof |-> FirstYearProfile]}

Scenarios ==
  FreshScenarios \cup MidRunScenarios \cup LateScenarios \cup FirstYearScenarios

\* the agents of a start state: the n initial agents, then the children
ScenarioAgents(sc) ==
  IF sc.t0 = FRESH_TICK
    THEN [i \in 1..sc.n |->
            NewAgent(i, initial_persona(i - 1), sc.beliefs[i + 1], FRESH_TICK)]
  ELSE IF sc.t0 = FIRST_YEAR_TICK
    THEN [i \in 1..sc.n |->
            MidAgent(i, initial_persona(i - 1), sc.beliefs[i + 1], sc.prof.infl[i],
                     FRESH_TICK,
                     IF i = 2 THEN FIRST_YEAR_CRITIQUES ELSE FRESH_TICK, None)]
    ELSE [i \in 1..(Len(sc.prof.infl) + 1) |->
            LET birth == IF i <= sc.n THEN 0
                         ELSE IF i = Len(sc.prof.infl) + 1 THEN FIRST_DEATH_TICK
                         ELSE BIRTH_DEATH_PERIOD
                persona == IF i <= sc.n THEN initial_persona(i - 1)
                           ELSE Append(initial_persona(1), "_descendant")
            IN IF i = 1
                 THEN MidAgent(1, persona, sc.beliefs[1], DEAD_INFLUENCE, 0,
                               OLD_ESSAY_TICK, IF sc.school THEN 0 ELSE None)
                 ELSE MidAgent(i, persona, sc.beliefs[i], sc.prof.infl[i - 1],
                               birth,
                               IF i = 2 THEN sc.t0 - sc.prof.gap ELSE birth,
                               IF sc.school /\ (i < 4 \/ sc.t0 \in LATE_TICKS)
                                 THEN 0 ELSE None)]

ScenarioActive(sc) ==
  IF sc.t0 \in {FRESH_TICK, FIRST_YEAR_TICK} THEN 1..sc.n
  ELSE IF sc.t0 \in LATE_TICKS THEN {3, 4}
  ELSE 2..(Len(sc.prof.infl) + 1)

ScenarioEssays(sc) ==
  IF sc.t0 = FRESH_TICK THEN <<>>
  ELSE IF sc.t0 = FIRST_YEAR_TICK
    THEN add_essay(<<>>, Essay(IntId(1), FRESH_TICK, <<>>), sc.db)
  ELSE add_essay(<<Essay(IntId(1), OLD_ESSAY_TICK, <<>>)>>,
                 Essay(IntId(2), sc.t0 - sc.prof.gap, <<1>>), sc.db)

\* the critiques registered before the start state, each with its draw
ScenarioCritiques(sc) ==
  IF sc.t0 = FIRST_YEAR_TICK
    THEN [i \in 1..FIRST_YEAR_CRITIQUES |->
            update_persuasiveness(Critique(IntId(2), 1, -1, i), 800)]
    ELSE <<>>

ScenarioSchools(sc) ==
  IF sc.school
    THEN [k \in {0} |-> School({StrId(1), StrId(2), StrId(3)}, OLD_SCHOOL_TICK)]
    ELSE [k \in {} |-> School({}, 0)]

\* no get_model_state evaluation yet
NoSnapshot == [by |-> "none", at |-> "idle"]

\* the start states of a run with the dashboard
DashboardScenarios ==
  {sc \in Scenarios :
     /\ ~sc.db /\ ~sc.llm /\ sc.n = 3 /\ sc.t0 \in {FRESH_TICK, MIDRUN_TICK}
     /\ sc.beliefs = BeliefClustered /\ ~sc.school
     /\ (sc.t0 = MIDRUN_TICK => sc.prof.gap = 1)}

\* no _find_cohesive_groups call in progress
NoGrouping ==
  [pos |-> "none", agents_list |-> {}, belief_vectors |-> <<>>,
   remaining |-> {}, groups |-> <<>>, seeds |-> {}, attempts |-> 0]

\* the model in the start state sc
ScenarioState(sc) ==
    /\ time = sc.t0
    /\ agents = ScenarioAgents(sc)
    /\ active = ScenarioActive(sc)
    /\ essays = ScenarioEssays(sc)
    /\ critiques = ScenarioCritiques(sc)
    /\ schools = ScenarioSchools(sc)
    /\ db_manager = sc.db
    /\ use_llm = sc.llm
    /\ n_agents = sc.n
    /\ pc = "idle"
    /\ pending = {}
    /\ steps = 0
    /\ observed = NoSnapshot

InitFrom(S) == \E sc \in S : ScenarioState(sc) /\ grouping = NoGrouping

Init == InitFrom(Scenarios)

DashboardInit == InitFrom(DashboardScenarios)

\* -------------------------------------------------------------------- actions
\* step(): the topic agenda is redrawn and RandomActivation starts a round
StartStep ==
  /\ pc = "idle"
  /\ steps < MaxSteps
  /\ pc' = "agents"
  /\ pending' = active
  /\ UNCHANGED <<time, agents, active, essays, critiques, schools, db_manager,
                 use_llm, n_agents, steps,
                 observed, grouping>>

\* PhilosopherAgent.step() of agent a, with add_essay and add_critique
AgentStep(a) ==
  /\ pc = "agents"
  /\ a \in pending
  /\ \E should_write_essay \in {FALSE} \cup {b \in {TRUE} : Len(essays) < MaxEssays},
        should_write_critique \in {FALSE} \cup {b \in {TRUE} : Len(critiques) < MaxCritiques} :
       \E citations \in (IF should_write_essay
                           THEN select_citations(essays, agents[a].unique_id)
                           ELSE {<<>>}) :
         LET current_tick == time
             essays1 == IF should_write_essay
                          THEN add_essay(essays,
                                         Essay(agents[a].unique_id, time, citations),
                                         db_manager)
                          ELSE essays
             agents1 == [agents EXCEPT
                           ![a] = record_activity(@, should_write_essay, current_tick)]
             available == select_essay_to_critique(essays1, agents[a].unique_id)
             critiquing == should_write_critique /\ available # {}
         IN \E target \in (IF critiquing THEN available ELSE {0}),
               stance \in (IF critiquing THEN Stances ELSE {1}),
               score \in (IF critiquing /\ use_llm THEN LLMScores ELSE {0}),
               persuasiveness \in (IF critiquing THEN PersuasivenessValues ELSE {0}) :
              LET done == add_critique(agents1, active, essays1, critiques,
                                       write_critique(agents[a].unique_id, target,
                                                      stance, time, use_llm, score),
                                       persuasiveness)
              IN /\ essays' = essays1
                 /\ critiques' = IF critiquing THEN done.critiques ELSE critiques
                 /\ agents' = [(IF critiquing THEN done.agents ELSE agents1) EXCEPT
                                ![a] = record_activity(@, critiquing, current_tick)]
  /\ pending' = pending \ {a}
  /\ UNCHANGED <<time, active, schools, db_manager, use_llm, n_agents, pc, steps,
                 observed, grouping>>

\* variant that tests the birth/death period first
AfterInfluence_birth_first(now) ==
  IF now % BIRTH_DEATH_PERIOD = 0 THEN "birth_death"
  ELSE IF now % SCHOOL_PERIOD = 0 THEN "schools"
  ELSE "collect"

\* where step() goes after the phase that ends at tick now
AfterInfluence(now) ==
  IF now % SCHOOL_PERIOD = 0 THEN "schools"
  ELSE IF now % BIRTH_DEATH_PERIOD = 0 THEN "birth_death"
  ELSE "collect"

AfterSchools(now) ==
  IF now % BIRTH_DEATH_PERIOD = 0 THEN "birth_death" ELSE "collect"

\* the end of schedule.step(), which advances the clock, and
\* _update_influence_scores
UpdateInfluenceScores ==
  /\ pc = "agents"
  /\ pending = {}
  /\ time' = time + 1
  /\ agents' = update_influence_scores(agents, active, essays, critiques, time')
  /\ pc' = AfterInfluence(time')
  /\ UNCHANGED <<active, essays, critiques, schools, db_manager, use_llm,
                 n_agents, pending, steps,
                 observed, grouping>>

\* _detect_and_update_schools
DetectAndUpdateSchools ==
  /\ pc = "schools"
  /\ IF Cardinality(active) < MIN_AGENTS_FOR_SCHOOLS
       THEN UNCHANGED <<schools, agents>>
       ELSE \E school_clusters \in detect_schools(essays, belief_map(agents, active)) :
              LET updated == update_schools(school_clusters, schools, agents,
                                            active, time)
              IN /\ schools' = updated.schools
                 /\ agents' = updated.agents
  /\ pc' = AfterSchools(time)
  /\ UNCHANGED <<time, active, essays, critiques, db_manager, use_llm, n_agents,
                 pending, steps,
                 observed, grouping>>

\* _handle_birth_death
HandleBirthDeath ==
  /\ pc = "birth_death"
  /\ LET survivors == active \ agents_to_remove(agents, active, time)
     IN IF birth_condition(agents, survivors, n_agents)
          THEN \E parent \in high_influence_agents(agents, survivors),
                  noise \in NoiseVectors :
                 /\ agents' = Append(agents, spawn_child(agents, parent, noise, time))
                 /\ active' = survivors \cup {Len(agents) + 1}
          ELSE /\ agents' = agents
               /\ active' = survivors
  /\ pc' = "collect"
  /\ UNCHANGED <<time, essays, critiques, schools, db_manager, use_llm, n_agents,
                 pending, steps,
                 observed, grouping>>

\* datacollector.collect(self) and the return of step()
FinishStep ==
  /\ pc = "collect"
  /\ pc' = "idle"
  /\ steps' = steps + 1
  /\ UNCHANGED <<time, agents, active, essays, critiques, schools, db_manager,
                 use_llm, n_agents, pending,
                 observed, grouping>>

Next ==
  \/ StartStep
  \/ \E a \in pending : AgentStep(a)
  \/ UpdateInfluenceScores
  \/ DetectAndUpdateSchools
  \/ HandleBirthDeath
  \/ FinishStep

Spec == Init /\ [][Next]_vars

\* ------------------------------------------------ the run with the dashboard
\* run_with_dashboard gathers server.serve() and run_simulation on one asyncio
\* event loop.  model.step() is a plain call inside the run_simulation
\* coroutine, which gives the loop back only at its awaits (broadcast_update,
\* asyncio.sleep), after step() has returned; the route handlers are
\* coroutines of the same loop.
Routes == {"/api/model-state", "/api/statistics"}

\* variant with handlers on threads of their own
loop_is_free_threaded == TRUE

\* run_simulation is suspended at an await
loop_is_free == pc = "idle" /\ time > FRESH_TICK

Snapshot(by) == [by |-> by, at |-> pc]

\* the handlers of /api/model-state and /api/statistics
GetModelState(route) ==
  /\ loop_is_free
  /\ observed' = Snapshot(route)
  /\ UNCHANGED <<time, agents, active, essays, critiques, schools, db_manager,
                 use_llm, n_agents, pc, pending, steps,
                 grouping>>

\* run_simulation after step() number steps - 1 has returned: the yearly log
\* line and the broadcast of every BROADCAST_PERIOD-th step
BroadcastUpdate ==
  /\ pc = "idle"
  /\ steps > 0
  /\ (steps - 1) % BROADCAST_PERIOD = 0
  /\ observed' = Snapshot("broadcast")
  /\ UNCHANGED <<time, agents, active, essays, critiques, schools, db_manager,
                 use_llm, n_agents, pc, pending, steps,
                 grouping>>

NextDashboard ==
  \/ StartStep
  \/ \E a \in pending : AgentStep(a)
  \/ UpdateInfluenceScores
  \/ DetectAndUpdateSchools
  \/ HandleBirthDeath
  \/ FinishStep
  \/ BroadcastUpdate
  \/ \E route \in Routes : GetModelState(route)

SpecDashboard == DashboardInit /\ [][NextDashboard]_vars

\* ------------------------------------------- _find_cohesive_groups on its own
\* The greedy grouping as the loop it is: one action per seed attempt.  The
\* call gets the first k agent keys and any assignment of three vectors, of
\* which the first and the last are each similar to the middle one only.
PoolKeys(k) == {StrId(i) : i \in 1..k}
PoolVectors == {Vec(100, 0), Vec(100, 100), Vec(0, 100)}

CohesiveInit ==
  /\ \E sc \in FreshScenarios : ~sc.db /\ ~sc.llm /\ ScenarioState(sc)
  /\ \E k \in 0..MaxPool :
       \E bv \in [PoolKeys(k) -> PoolVectors] :
         grouping = [NoGrouping EXCEPT !.pos = "call", !.agents_list = PoolKeys(k),
                                       !.belief_vectors = bv]

\* variant that puts the whole group back
released_all(group, seed) == group

\* group[1:], the members a failed attempt puts back
released(group, seed) == group \ {seed}

\* if len(agents) < self.min_samples: return []; remaining = set(agents)
EnterFindCohesiveGroups ==
  /\ grouping.pos = "call"
  /\ grouping' =
       IF Cardinality(grouping.agents_list) < min_samples
         THEN [grouping EXCEPT !.pos = "returned"]
         ELSE [grouping EXCEPT !.pos = "loop", !.remaining = grouping.agents_list]
  /\ UNCHANGED <<time, agents, active, essays, critiques, schools, db_manager,
                 use_llm, n_agents, pc, pending, steps, observed>>

\* one pass of the while loop: a seed, its candidate loop, the group's fate
SeedAttempt ==
  /\ grouping.pos = "loop"
  /\ Cardinality(grouping.remaining) >= min_samples
  /\ grouping.attempts <= MaxPool
  /\ \E seed \in grouping.remaining :
       \E group \in GrowGroup({seed}, grouping.remaining \ {seed},
                              grouping.belief_vectors, cohesion_threshold) :
         grouping' =
           IF Cardinality(group) >= min_samples
             THEN [grouping EXCEPT !.remaining = @ \ group,
                                   !.groups = Append(@, group),
                                   !.seeds = @ \cup {seed},
                                   !.attempts = @ + 1]
             ELSE [grouping EXCEPT !.remaining = (@ \ group) \cup released(group, seed),
                                   !.seeds = @ \cup {seed},
                                   !.attempts = @ + 1]
  /\ UNCHANGED <<time, agents, active, essays, critiques, schools, db_manager,
                 use_llm, n_agents, pc, pending, steps, observed>>

\* the loop condition fails: return groups
ReturnGroups ==
  /\ grouping.pos = "loop"
  /\ Cardinality(grouping.remaining) < min_samples
  /\ grouping' = [grouping EXCEPT !.pos = "returned"]
  /\ UNCHANGED <<time, agents, active, essays, critiques, schools, db_manager,
                 use_llm, n_agents, pc, pending, steps, observed>>

NextCohesive ==
  \/ EnterFindCohesiveGroups
  \/ SeedAttempt
  \/ ReturnGroups

\* the call is sequential code: a step that can be taken is taken
SpecCohesive == CohesiveInit /\ [][NextCohesive]_vars /\ WF_vars(NextCohesive)

\* ===================================================================== claims
Last(seq) == seq[Len(seq)]
EssayAdded == Len(essays') = Len(essays) + 1
CritiqueAdded == Len(critiques') = Len(critiques) + 1
IsActiveId(id) == \E a \in active : agents[a].unique_id = int(id)
Gap(a) == time - agents[a].last_activity_tick

\* C1: in every reachable state every agent of the active population,
\* a newly born child included, has influence >= 0.1.
C1_InfluenceFloor ==
  \A a \in active : agents[a].influence >= INFLUENCE_FLOOR

\* an update was clamped to the floor (106 - 10 < 100) and, in the same
\* tick, a child was born
C1_Witness ==
  /\ pc = "collect"
  /\ \E a \in active : agents[a].influence = INFLUENCE_FLOOR
  /\ \E c \in active : agents[c].birth_tick = time /\ time > 0

\* C2: registering an essay raises the citation_count of every registered
\* essay by exactly one per citation entry of the new essay that points to
\* it, and no step ever lowers a citation_count.
C2_CitationCounts ==
  [][/\ \A i \in DOMAIN essays :
          essays'[i].citation_count >= essays[i].citation_count
     /\ EssayAdded =>
          \A i \in DOMAIN essays :
            essays'[i].citation_count =
              essays[i].citation_count
              + Cardinality({j \in DOMAIN Last(essays').citations :
                               Last(essays').citations[j] = i})]_vars

\* C3: a model constructed the other way (with a persistence collaborator
\* instead of without, or without instead of with) takes every step with the
\* same draws to the same core state: the only place where the collaborator
\* is consulted by a state-changing operation is the registration of an
\* essay, which must leave the same registry either way.
C3_PersistenceIsObserver ==
  [][EssayAdded =>
       essays' = add_essay(essays, [Last(essays') EXCEPT !.citation_count = 0],
                           ~db_manager)]_vars

\* the state is the one right after a _detect_and_update_schools call
AfterDetection ==
  \/ pc = "birth_death"
  \/ pc = "collect" /\ time % SCHOOL_PERIOD = 0 /\ time % BIRTH_DEATH_PERIOD # 0

\* C4: right after a detection call no agent id is in the member_ids of two
\* schools of the registry.
C4_SchoolsDisjoint ==
  AfterDetection =>
    \A k1, k2 \in DOMAIN schools :
      k1 # k2 => schools[k1].member_ids \cap schools[k2].member_ids = {}

\* C5: a detection cycle leaves in the registry exactly the schools of its
\* detection result, each with the member list the result gives for it.
C5_RegistryIsDetectionResult ==
  [][pc = "schools" =>
       \E result \in detect_schools(essays, belief_map(agents, active)) :
         /\ DOMAIN schools' = {i - 1 : i \in DOMAIN result}
         /\ \A i \in DOMAIN result : schools'[i - 1].member_ids = result[i]]_vars

\* C6: a birth/death event removes exactly the active agents with
\* influence < 0.5 whose last artifact is more than 12 ticks old.
C6_DeathEligibility ==
  [][pc = "birth_death" =>
       active \ active' =
         {a \in active : agents[a].influence < 500 /\ Gap(a) > 12}]_vars

\* after one event: influence 0.4 and gap 13 removed, influence 0.6 and a
\* gap above 12 kept, influence 0.4 and gap 12 kept
C6_Witness ==
  /\ pc = "collect"
  /\ \E a \in DOMAIN agents \ active : agents[a].influence = 400 /\ Gap(a) = 13
  /\ \E a \in active : agents[a].influence = 600 /\ Gap(a) > 12
  /\ \E a \in active : agents[a].influence = 400 /\ Gap(a) = 12

\* C7: no step removes or reorders an entry of the essay or critique registry
\* or changes its author / critic, and every registered essay, also one of
\* a removed author, is returned by get_available_essays to every agent
\* other than its author.
C7_RegistriesKeepEntries ==
  /\ [][/\ Len(essays') >= Len(essays)
        /\ Len(critiques') >= Len(critiques)
        /\ \A i \in DOMAIN essays : essays'[i].author_id = essays[i].author_id
        /\ \A i \in DOMAIN critiques :
             critiques'[i].critic_id = critiques[i].critic_id]_vars
  /\ [](\A i \in DOMAIN essays : \A a \in active :
          essays[i].author_id # agents[a].unique_id =>
            i \in get_available_essays(essays, agents[a].unique_id))

\* the author of essay 2 has just been removed by the event of this tick and
\* the essay is still offered to the survivors
C7_Witness ==
  /\ pc = "collect"
  /\ Len(essays) >= 2
  /\ \E a \in DOMAIN agents \ active :
       /\ essays[2].author_id = agents[a].unique_id
       /\ Gap(a) = INACTIVE_TICKS + 1
       /\ \A b \in active : 2 \in get_available_essays(essays, agents[b].unique_id)

\* C8: a critique whose critic and target author are both active, with draw
\* p and stance s, moves the target author's influence to
\* max(0.1, influence + p * 0.1 * s), the critic's by exactly +0.05 and no
\* other agent's.
C8_CritiqueInfluence ==
  [][(CritiqueAdded /\ Last(critiques').target_id \in DOMAIN essays'
        /\ IsActiveId(Last(critiques').critic_id)
        /\ IsActiveId(essays'[Last(critiques').target_id].author_id)) =>
       LET c == Last(critiques')
           p == c.persuasiveness_score
           author_id == essays'[c.target_id].author_id
       IN \A a \in DOMAIN agents :
            agents'[a].influence =
              IF agents[a].unique_id = c.critic_id
                THEN agents[a].influence + 50
              ELSE IF agents[a].unique_id = author_id
                THEN Max(100, agents[a].influence + ((p * 100 * c.stance) \div 1000))
              ELSE agents[a].influence]_vars

\* p = 0.8, stance +1, target influence 1.0: the target has 1.08, the critic 1.05
C8_Witness ==
  /\ Len(critiques) = 1
  /\ critiques[1].persuasiveness_score = 800
  /\ critiques[1].stance = 1
  /\ \E a, b \in active :
       /\ agents[a].unique_id = critiques[1].critic_id
       /\ agents[b].unique_id = essays[critiques[1].target_id].author_id
       /\ agents[a].influence = 1050
       /\ agents[b].influence = 1080
  /\ time = 0

\* C9: a critique whose target essay is not registered, or whose critic or
\* target author is not active, is stored and changes no influence, no belief
\* vector and no persuasiveness_score (its own stays as it was created).
C9_MissingEntitySkipped ==
  [][(CritiqueAdded
        /\ ~(/\ Last(critiques').target_id \in DOMAIN essays'
             /\ IsActiveId(Last(critiques').critic_id)
             /\ IsActiveId(essays'[Last(critiques').target_id].author_id))) =>
       /\ \A a \in DOMAIN agents :
            /\ agents'[a].influence = agents[a].influence
            /\ agents'[a].belief_vector = agents[a].belief_vector
       /\ \A i \in DOMAIN critiques :
            critiques'[i].persuasiveness_score = critiques[i].persuasiveness_score
       /\ Last(critiques').persuasiveness_score
            \in (IF use_llm THEN LLMScores ELSE {0})]_vars

\* a critique of an essay whose author was removed earlier is in the registry
C9_Witness ==
  /\ critiques # <<>>
  /\ ~IsActiveId(essays[Last(critiques).target_id].author_id)
  /\ IsActiveId(Last(critiques).critic_id)
  /\ Last(critiques).persuasiveness_score \in LLMScores

\* C10: a birth/death event spawns a child only if, after its removals, some
\* active agent has influence > 2.0 and the population is strictly below
\* 1.5 * n_agents.
C10_BirthCondition ==
  [][(pc = "birth_death" /\ Len(agents') > Len(agents)) =>
       LET survivors == active' \ {Len(agents')}
       IN /\ \E a \in survivors : agents[a].influence > 2000
          /\ 2 * Cardinality(survivors) < 3 * n_agents]_vars

\* the population is at the cap (3 = 1.5 * 2), an agent above 2.0 exists and
\* the event of this tick spawned nobody
C10_Witness ==
  /\ pc = "collect"
  /\ time % BIRTH_DEATH_PERIOD = 0
  /\ 2 * Cardinality(active) = 3 * n_agents
  /\ \E a \in active : agents[a].influence > 2000
  /\ \A a \in active : agents[a].birth_tick < time

\* the phases of step() in program order
PhaseOrder == <<"idle", "agents", "schools", "birth_death", "collect">>
PhaseRank(p) == CHOOSE i \in DOMAIN PhaseOrder : PhaseOrder[i] = p

\* C11: a step() passes through its phases in the fixed order (activation,
\* influence update, detection, birth/death), advances the tick by exactly
\* one when the activation ends, runs detection iff the new tick is a
\* multiple of 6 and then birth/death iff it is a multiple of 12; the school
\* registry changes only in a detection phase and the membership of the
\* active population only in a birth/death phase.
C11_StepPhases ==
  [][/\ pc' # pc =>
          \/ PhaseRank(pc') > PhaseRank(pc)
          \/ pc = "collect" /\ pc' = "idle" /\ steps' = steps + 1
     /\ (pc = "idle" /\ pc' # pc) => (pc' = "agents" /\ pending' = active)
     /\ time' # time => (pc = "agents" /\ pc' # pc /\ pending = {})
     /\ (pc = "agents" /\ pc' # pc) => time' = time + 1
     /\ (pc = "agents" /\ pc' # pc) => (pc' = "schools" <=> time' % 6 = 0)
     /\ (pc' = "schools" /\ pc' # pc) => pc = "agents"
     /\ (pc \in {"agents", "schools"} /\ pc' # pc /\ pc' # "schools") =>
          (pc' = "birth_death" <=> time' % 12 = 0)
     /\ (pc' = "birth_death" /\ pc' # pc) => pc = "schools"
     /\ schools' # schools => (pc = "schools" /\ time % 6 = 0)
     /\ active' # active => (pc = "birth_death" /\ time % 12 = 0)
    ]_vars

C11_Witness ==
  /\ pc = "birth_death"
  /\ time % 12 = 0
  /\ \E k \in DOMAIN schools : schools[k].founding_tick = time
  /\ \E a \in active : is_eligible_for_death(agents[a], time)

\* C12: in a run with the dashboard every evaluation of get_model_state, by
\* the broadcast or by one of the two route handlers, happens while no
\* step() is in progress.
C12_SnapshotBetweenSteps ==
  observed.by # "none" => observed.at = "idle"

C12_Witness ==
  /\ observed.by \in Routes
  /\ steps = 1
  /\ time % 12 = 0
  /\ pc = "idle"

\* old + w * v (or parent + noise) cut to [-5, 5]
Clipped(x) == IF x > 500 THEN 500 ELSE IF x < 0 - 500 THEN 0 - 500 ELSE x

\* C13: every component of every belief vector stays in [-5, 5]; a belief
\* vector changes only by a critique, to the component-wise clip of
\* old + w * v with v the critic's vector and w = 0.1 * persuasiveness, and
\* a child's vector is the component-wise clip of parent + noise.
C13_BeliefClipped ==
  [][/\ \A a \in DOMAIN agents' : \A i \in 1..BeliefDim :
          /\ agents'[a].belief_vector[i] <= 500
          /\ agents'[a].belief_vector[i] >= 0 - 500
     /\ \A a \in DOMAIN agents :
          agents'[a].belief_vector # agents[a].belief_vector =>
            /\ CritiqueAdded
            /\ \E k \in active :
                 /\ agents[k].unique_id = Last(critiques').critic_id
                 /\ LET w == FMul(100, Last(critiques').persuasiveness_score)
                    IN \A i \in 1..BeliefDim :
                         agents'[a].belief_vector[i] =
                           Clipped(agents[a].belief_vector[i]
                                     + FMul(w, agents[k].belief_vector[i]))
     /\ Len(agents') > Len(agents) =>
          \E parent \in active, noise \in NoiseVectors :
            \A i \in 1..BeliefDim :
              Last(agents').belief_vector[i] =
                Clipped(agents[parent].belief_vector[i] + noise[i])
    ]_vars

\* a supportive critique pushed its target's first component from 4.8 over
\* 5.0, and the child's parent + noise exceeded 5.0 as well
C13_Witness ==
  /\ pc = "collect"
  /\ critiques # <<>>
  /\ Last(critiques).stance = 1
  /\ \E a \in active :
       /\ essays[Last(critiques).target_id].author_id = agents[a].unique_id
       /\ agents[a].belief_vector[1] = 500
       /\ agents[a].belief_vector[2] > 0
  /\ Last(agents).birth_tick = time
  /\ Last(agents).belief_vector[1] = 500

\* C14: detect_schools returns the empty mapping for fewer than 3 belief
\* vectors, and a detection cycle with fewer than 3 active agents leaves the
\* model with no schools.
C14_SmallPopulationNoSchools ==
  [][(pc = "schools" /\ Cardinality(active) < 3) =>
       /\ detect_schools(essays, belief_map(agents, active)) = {<<>>}
       /\ DOMAIN schools' = {}
    ]_vars

\* C15: every registered critique has had its persuasiveness_score written
\* exactly once (agent activations are atomic, so a registered critique is
\* seen only after the writes of its registration).
C15_ScoreWrittenOnce ==
  \A i \in DOMAIN critiques : critiques[i].score_writes = 1

\* the agents a member list names
NamedAgents(member_ids) == {int(m) : m \in member_ids}

\* C16: every member list of every mapping detect_schools can return for the
\* citation network and belief vectors of a detection cycle has at least 3
\* members, and no agent is named by two member lists of one mapping.
C16_SchoolsLargeAndDisjoint ==
  (pc = "schools" /\ Cardinality(active) >= 3) =>
    \A result \in detect_schools(essays, belief_map(agents, active)) :
      /\ \A k \in DOMAIN result : Cardinality(result[k]) >= 3
      /\ \A j, k \in DOMAIN result :
           j # k => NamedAgents(result[j]) \cap NamedAgents(result[k]) = {}

\* the artifacts of agent a that are at most 6 ticks old at tick now
RecentEssaysOf(a, now) ==
  {i \in DOMAIN essays : /\ int(essays[i].author_id) = agents[a].unique_id
                          /\ now - essays[i].timestamp <= 6}
RecentCritiquesOf(a, now) ==
  {i \in DOMAIN critiques : /\ int(critiques[i].critic_id) = agents[a].unique_id
                             /\ now - critiques[i].timestamp <= 6}

\* -0.01 + 0.02 * citations received + 0.01 * persuasiveness achieved
ExpectedChange(a, now) ==
  0 - 10
  + SumOver(RecentEssaysOf(a, now),
            [i \in RecentEssaysOf(a, now) |-> 20 * essays[i].citation_count])
  + SumOver(RecentCritiquesOf(a, now),
            [i \in RecentCritiquesOf(a, now) |->
               FMul(critiques[i].persuasiveness_score, 10)])

\* C17: the influence update at the end of the activation round moves every
\* active agent's influence to max(0.1, influence + delta), delta being
\* -0.01 plus 0.02 per citation received by the agent's recent essays plus
\* 0.01 times the persuasiveness of the agent's recent critiques.
C17_InfluenceUpdate ==
  [][time' = time + 1 =>
       \A a \in active :
         agents'[a].influence =
           Max(100, agents[a].influence + ExpectedChange(a, time'))
    ]_vars

\* C18: an essay enters the registry with author_influence equal to the
\* influence its author has when writing it.
C18_AuthorInfluenceRecorded ==
  [][EssayAdded =>
       \E a \in active :
         /\ agents[a].unique_id = Last(essays').author_id
         /\ Last(essays').author_influence = agents[a].influence
    ]_vars

\* the schools the greedy grouping adds for the agents left unclaimed
CohesionSchools(remaining, belief_vectors) ==
  {SelectSeq(groups, LAMBDA g : Cardinality(g) >= 3) :
     groups \in find_cohesive_groups(remaining, belief_vectors, 700)}

\* C19: for every pair of graph clusters and belief clusters a detection
\* cycle can get, if at least 3 agents are left unclaimed by the cluster
\* loop then the result is the loop's schools followed by one school per
\* group of size >= 3 that the greedy cohesion grouping of the unclaimed
\* agents forms.
C19_CohesionGroupingApplied ==
  (pc = "schools" /\ Cardinality(active) >= 3) =>
    LET belief_vectors == belief_map(agents, active)
    IN \A graph_clusters \in detect_citation_clusters(essays),
          belief_clusters \in detect_belief_clusters(belief_vectors) :
         LET looped == MergeLoop(graph_clusters \o belief_clusters, 1, <<>>, {})
             remaining == (DOMAIN belief_vectors) \ looped.used_agents
         IN Cardinality(remaining) >= 3 =>
              merge_clusters(graph_clusters, belief_clusters, belief_vectors) =
                {looped.merged \o added :
                   added \in CohesionSchools(remaining, belief_vectors)}

\* the cluster loop as the merge rule states it: from cluster i on, the
\* members whose agent no earlier school has claimed form a school iff at
\* least 3 of them remain
RECURSIVE ClaimLoop(_, _, _, _)
ClaimLoop(all_clusters, i, merged, claimed) ==
  IF i > Len(all_clusters) THEN [merged |-> merged, used_agents |-> claimed]
  ELSE LET unclaimed == {m \in all_clusters[i] : int(m) \notin NamedAgents(claimed)}
       IN IF Cardinality(unclaimed) >= 3
            THEN ClaimLoop(all_clusters, i + 1, Append(merged, unclaimed),
                           claimed \cup unclaimed)
            ELSE ClaimLoop(all_clusters, i + 1, merged, claimed)

\* C20: for every pair of graph clusters and belief clusters a detection
\* cycle can get, the cluster loop of the merge gives the schools and the
\* claimed members of the rule: graph clusters first, then belief clusters,
\* each cluster's unclaimed agents forming a school iff at least 3 remain, so
\* that an agent of a graph school is in no school of a belief cluster.
C20_MergeSkipsClaimedAgents ==
  (pc = "schools" /\ Cardinality(active) >= 3) =>
    \A graph_clusters \in detect_citation_clusters(essays),
       belief_clusters \in detect_belief_clusters(belief_map(agents, active)) :
      MergeLoop(graph_clusters \o belief_clusters, 1, <<>>, {}) =
        ClaimLoop(graph_clusters \o belief_clusters, 1, <<>>, {})

\* C21: a _find_cohesive_groups call returns; until then every seed tried
\* stays out of the unclaimed pool, the seed attempts number at most the
\* agents given, every group has at least 3 members and no agent is in two
\* groups.
C21_GroupingTerminates ==
  /\ [](/\ grouping.seeds \cap grouping.remaining = {}
        /\ grouping.attempts <= Cardinality(grouping.agents_list)
        /\ \A i \in DOMAIN grouping.groups : Cardinality(grouping.groups[i]) >= 3
        /\ \A i, j \in DOMAIN grouping.groups :
             i # j => grouping.groups[i] \cap grouping.groups[j] = {})
  /\ <>(grouping.pos = "returned")

\* a returned call with a failed attempt and a group
C21_Witness ==
  /\ grouping.pos = "returned"
  /\ Len(grouping.groups) = 1
  /\ grouping.attempts = 2
  /\ Cardinality(grouping.remaining) = 0

\* the critique registered by this step had its effects applied: its target
\* essay is registered and its critic and target author are active
EffectsApplied ==
  /\ CritiqueAdded
  /\ Last(critiques').target_id \in DOMAIN essays'
  /\ IsActiveId(Last(critiques').critic_id)
  /\ IsActiveId(essays'[Last(critiques').target_id].author_id)

\* C22: a step that registers a critique replaces the target author's belief
\* vector by the clipped old + 0.1 * p * (critic's vector) exactly when the
\* draw p is > 0.6 and the stance is +1; otherwise the target author's
\* vector stays, and the critic's and every third agent's vector always stay.
C22_BeliefNudgeCondition ==
  [][CritiqueAdded =>
       LET c == Last(critiques')
           p == c.persuasiveness_score
       IN \A a \in DOMAIN agents :
            agents'[a].belief_vector =
              IF /\ EffectsApplied
                 /\ agents[a].unique_id = int(essays'[c.target_id].author_id)
                 /\ a \in active
                 /\ p > 600 /\ c.stance = 1
                THEN LET k == CHOOSE k \in active :
                                 agents[k].unique_id = int(c.critic_id)
                     IN [i \in 1..BeliefDim |->
                           Clipped(agents[a].belief_vector[i]
                                     + FMul(FMul(100, p), agents[k].belief_vector[i]))]
                ELSE agents[a].belief_vector]_vars

\* a supportive critique drawn at 0.8 has moved its target author's vector
\* off every start vector while the critic's is a start vector still
C22_Witness ==
  /\ Len(critiques) = 1
  /\ critiques[1].stance = 1
  /\ critiques[1].persuasiveness_score = 800
  /\ \E a, k \in active :
       /\ agents[a].unique_id = int(essays[critiques[1].target_id].author_id)
       /\ agents[k].unique_id = int(critiques[1].critic_id)
       /\ agents[a].belief_vector \notin Range(BeliefClustered) \cup Range(BeliefCohesive)
       /\ agents[k].belief_vector \in Range(BeliefClustered) \cup Range(BeliefCohesive)
       /\ agents[a].birth_tick < time

C24_CitationsWellFormed ==
  \A i \in DOMAIN essays :
    LET cites == essays[i].citations
    IN /\ \A j, k \in DOMAIN cites : j # k => cites[j] # cites[k]
       /\ \A j \in DOMAIN cites :
            /\ cites[j] \in DOMAIN essays
            /\ cites[j] < i
            /\ essays[cites[j]].author_id # essays[i].author_id

\* an essay written in this run cites two essays, one of them of a removed
\* author
C24_Witness ==
  /\ Len(essays) = 3
  /\ essays[3].timestamp >= MIDRUN_TICK
  /\ Len(essays[3].citations) = 2
  /\ ~IsActiveId(essays[1].author_id)

\* C25: every registered critique targets a registered essay whose author
\* is not the critic, and the activation of an agent for whom no essay of
\* another author is registered adds no critique and changes no influence.
C25_CritiqueTargetsOthers ==
  /\ [](\A i \in DOMAIN critiques :
          /\ critiques[i].target_id \in DOMAIN essays
          /\ essays[critiques[i].target_id].author_id # critiques[i].critic_id)
  /\ [][\A a \in pending \ pending' :
          (\A i \in DOMAIN essays' : essays'[i].author_id = agents[a].unique_id) =>
            /\ critiques' = critiques
            /\ \A b \in DOMAIN agents : agents'[b].influence = agents[b].influence]_vars

\* in the first tick the author of the only essay has been activated, with
\* nothing to critique, and a later agent has critiqued that essay
C25_Witness ==
  /\ time = FRESH_TICK
  /\ pc = "agents"
  /\ Len(essays) = 1
  /\ Len(critiques) = 1
  /\ critiques[1].target_id = 1
  /\ critiques[1].critic_id # essays[1].author_id
  /\ \E a \in active \ pending : agents[a].unique_id = essays[1].author_id

\* the ticks of the artifacts agent a has registered
ArtifactTicks(a) ==
  {essays[i].timestamp : i \in {j \in DOMAIN essays :
                                   essays[j].author_id = agents[a].unique_id}}
  \cup {critiques[i].timestamp : i \in {j \in DOMAIN critiques :
                                           critiques[j].critic_id = agents[a].unique_id}}

\* C26: a step sets an agent's last_activity_tick, to the current tick,
\* exactly when that agent's activation registers an essay or a critique and
\* otherwise leaves it; so it never decreases, never exceeds the current
\* tick and is the tick of the agent's latest artifact or, without one, its
\* birth tick.
C26_LastActivityTick ==
  /\ [][\A a \in DOMAIN agents :
          /\ agents'[a].last_activity_tick >= agents[a].last_activity_tick
          /\ agents'[a].last_activity_tick =
               IF /\ a \in pending \ pending'
                  /\ \/ EssayAdded /\ Last(essays').author_id = agents[a].unique_id
                     \/ CritiqueAdded /\ Last(critiques').critic_id = agents[a].unique_id
                 THEN time
                 ELSE agents[a].last_activity_tick]_vars
  /\ [](\A a \in DOMAIN agents :
          /\ agents[a].last_activity_tick <= time
          /\ \A t \in ArtifactTicks(a) : t <= agents[a].last_activity_tick
          /\ agents[a].last_activity_tick \in
               (IF ArtifactTicks(a) = {} THEN {agents[a].birth_tick}
                                         ELSE ArtifactTicks(a)))

\* in one tick an agent was activated and produced nothing, its last
\* activity still its birth tick, and another registered a critique
C26_Witness ==
  /\ pc = "agents"
  /\ time = MIDRUN_TICK
  /\ \E a \in active \ pending :
       ArtifactTicks(a) = {} /\ agents[a].last_activity_tick = agents[a].birth_tick
  /\ \E b \in active \ pending :
       /\ agents[b].last_activity_tick = time
       /\ Len(critiques) = 1 /\ critiques[1].critic_id = agents[b].unique_id

\* C27: right after a detection cycle every active agent's school_id is
\* none or the id of a school that is in the registry and whose member_ids
\* name that agent.
C27_SchoolIdRegistered ==
  (AfterDetection /\ Cardinality(active) >= MIN_AGENTS_FOR_SCHOOLS) =>
    \A a \in active :
      \/ agents[a].school_id = None
      \/ /\ agents[a].school_id \in DOMAIN schools
         /\ agents[a].unique_id \in NamedAgents(schools[agents[a].school_id].member_ids)

\* C28: every member id of a school created by a detection cycle names an
\* agent of the active population of that cycle, never a removed agent.
C28_NewSchoolMembersActive ==
  [][pc = "schools" =>
       \A k \in DOMAIN schools' \ DOMAIN schools :
         NamedAgents(schools'[k].member_ids)
           \subseteq {agents[a].unique_id : a \in active}]_vars

C30_PopulationCap ==
  /\ [](Cardinality(active) <= (3 * n_agents + 1) \div 2)
  /\ [][Cardinality(active') > Cardinality(active) =>
          /\ pc = "birth_death"
          /\ time % 12 = 0
          /\ Cardinality(active') = Cardinality(active) + 1]_vars

\* three initial agents: the event of this tick removed nobody and its
\* child is the fifth active agent, 5 = ceil(4.5)
C30_Witness ==
  /\ pc = "collect"
  /\ n_agents = 3
  /\ Cardinality(active) = 5
  /\ Last(agents).birth_tick = time
  /\ 2 * Cardinality(active) > 3 * n_agents

====
